---- MODULE Spec2Model ----
(***************************************************************************)
(* A model of proxy.py: the Copilot session-token manager (TokenManager),  *)
(* the streaming relay (ProxyHandler._proxy / _respond) and the GitHub     *)
(* device flow (github_device_flow).                                       *)
(*                                                                         *)
(* Five specifications share the module:                                   *)
(*   SpecToken  - NThreads worker threads calling TokenManager.get_token   *)
(*                while the clock advances;                                *)
(*   SpecRelay  - one worker thread serving relayed requests;              *)
(*   SpecDevice - the device-flow authenticator, SpecDeviceFair the same   *)
(*                with its polling loop unbounded and fair;                *)
(*   SpecMain   - main's first exchange followed by the worker of          *)
(*                SpecRelay.                                               *)
(***************************************************************************)
EXTENDS Integers, Sequences, FiniteSets, TLC

(***************************************************************************)
(* Bounds of the model.                                                    *)
(***************************************************************************)
NThreads == 2
MaxCalls == 2
MaxTicks == 2
TickLen == 60
MaxRequests == 1
MaxReads == 2
MaxPolls == 4

(***************************************************************************)
(* Program constants.                                                      *)
(***************************************************************************)
\* the safety margin of get_token: time.time() < self.expires_at - 120
SKEW == 120

Threads == 1..NThreads
NoThread == 0

\* Values of self.copilot_token. Python's None and the empty string are both
\* falsy; a session token is a non-empty string, modelled by the serial number
\* (>= 1) of the exchange that issued it.
None == 0 - 1
EmptyStr == 0
Truthy(tok) == tok >= 1

VARIABLES
  \* ---- TokenManager (shared by all worker threads)
  copilot_token,   \* self.copilot_token
  expires_at,      \* self.expires_at
  lock,            \* self._lock: the thread holding it, or NoThread
  now,             \* time.time()
  ticks,           \* number of clock advances so far
  exchanges,       \* number of requests _exchange_token has sent upstream
  cred_src,        \* the exchange (by serial, 0 for __init__) that each cached field is from
  \* ---- one get_token call per thread
  pc,              \* position of each thread in get_token
  calls,           \* number of get_token calls started so far, by all threads
  attempts,        \* exchange requests issued by the thread's current call
  exch_result,     \* what the upstream answered to the current call's exchange
  outcome,         \* "none" | "returned" | "raised" for the current call
  ret,             \* the token the call returned (None when it raised)
  err,             \* the exception the call raised
  stale_at_call,   \* the cache was not valid when the call began
  race,            \* bookkeeping of a race of all threads on a stale cache
  \* ---- ProxyHandler: one worker thread relaying requests
  rpc,             \* position of the worker in _proxy
  requests,        \* number of requests the worker has taken so far
  request,         \* method and upstream_path of the current request
  headers_buffer,  \* BaseHTTPRequestHandler._headers_buffer: lines not yet flushed
  wfile,           \* what has been written to the client for the current request
  conn,            \* the upstream connection: "none" | "open" | "closed"
  resp,            \* status and headers of the upstream response
  reads,           \* what resp.read has delivered so far, read by read
  failure,         \* the step of _proxy that raised, "none" when none did
  exc,             \* str(e) of the exception caught at line 207
  method,          \* self.command of the request being handled
  path,            \* self.path of the request being routed, <<>> once it is routed to _proxy
  client,          \* the inbound connection: "connected", or "gone" once a write failed
  \* ---- github_device_flow
  dpc,             \* position of the authenticator
  interval,        \* the polling interval, in seconds
  first_interval,  \* the interval the polling started with
  slept,           \* the durations of the time.sleep calls so far
  polls,           \* number of poll requests sent so far
  poll_log,        \* the outcomes of the polls so far, in order
  token_file,      \* the github_token in TOKEN_FILE, NoToken when not written
  file_writes,     \* number of times TOKEN_FILE has been written
  dret,            \* the token github_device_flow returned, NoToken when none
  exit_code,       \* the status sys.exit ended the process with, NotExited when none
  \* ---- the process and its handler threads
  github_token,    \* TokenManager.github_token
  mpc,             \* position of main
  health           \* the last health check answered: what was written, who held the lock

tokVars == <<copilot_token, expires_at, cred_src, lock, now, ticks, exchanges, pc, calls,
             attempts, exch_result, outcome, ret, err, stale_at_call, race>>

\* the request line the handler was called for
inVars == <<method, path>>

relayVars == <<rpc, requests, request, headers_buffer, wfile, conn, resp, reads,
               failure, exc, inVars, client>>

devVars == <<dpc, interval, first_interval, slept, polls, poll_log, token_file,
             file_writes, dret, exit_code>>

\* what neither get_token nor _proxy nor the device flow assigns
asideVars == <<github_token, mpc, health>>

vars == <<tokVars, relayVars, devVars, asideVars>>

\* what get_token does not touch
otherVars == <<relayVars, devVars, asideVars>>

(***************************************************************************)
(* TokenManager.get_token                                                  *)
(***************************************************************************)

\* the cached token taken for valid up to its expiry, without the margin
CacheValidNoSkew(tok, exp, t) == Truthy(tok) /\ t < exp

\* the comparison of line 82 turned round
CacheValidInverted(tok, exp, t) == Truthy(tok) /\ t > exp - SKEW

\* line 82: self.copilot_token and time.time() < self.expires_at - 120
CacheValid(tok, exp, t) == Truthy(tok) /\ t < exp - SKEW

\* What the token endpoint may answer to one exchange (the dict that
\* _exchange_token returns): "token" is a fresh token, an empty string or
\* absent; "expires_at" is a time at or after now + SKEW, or absent.
\* a key the JSON object does not have
Missing == 0 - 2
ExpiryOffsets == {SKEW, SKEW + 2 * TickLen}
ExchangeReplies(serial, t) ==
  [token : {serial, EmptyStr, Missing},
   expires_at : {t + off : off \in ExpiryOffsets} \cup {Missing}]

\* _exchange_token raising: urlopen failing on the network, or answering a
\* non-success status (urllib raises HTTPError).
ExchangeFailures == {"URLError", "HTTPError"}

NoRace == [on |-> FALSE, left |-> {}, exch |-> 0, rets |-> [t \in Threads |-> None],
           first |-> "none", first_tok |-> None, first_exp |-> 0]

InCall(t) == pc[t] # "idle"

\* lines 53-57: TokenManager.__init__, and no call under way
\* the durable token main hands to TokenManager (line 346)
GithubToken == "gho_A"

\* no health check answered yet
NoHealth == [wfile |-> <<>>, lock |-> NoThread]

TokenManagerInit ==
  /\ github_token = GithubToken
  /\ copilot_token = None
  /\ cred_src = [token |-> 0, expires_at |-> 0]
  /\ expires_at = 0
  /\ lock = NoThread
  /\ now = 0
  /\ ticks = 0
  /\ exchanges = 0
  /\ pc = [t \in Threads |-> "idle"]
  /\ calls = 0
  /\ attempts = [t \in Threads |-> 0]
  /\ exch_result = [t \in Threads |-> "none"]
  /\ outcome = [t \in Threads |-> "none"]
  /\ ret = [t \in Threads |-> None]
  /\ err = [t \in Threads |-> "none"]
  /\ stale_at_call = [t \in Threads |-> FALSE]
  /\ race = NoRace

\* The race bookkeeping when thread t's exchange is answered: the first
\* answer of the race is kept.
RaceAfterReply(t, kind, tok, exp) ==
  IF race.on /\ t \in race.left /\ race.first = "none"
  THEN [race EXCEPT !.first = kind, !.first_tok = tok, !.first_exp = exp]
  ELSE race

\* The race bookkeeping when thread t's call ends with token r (None when it
\* raised).
RaceAfterEnd(rc, t, r) ==
  IF rc.on /\ t \in rc.left
  THEN [rc EXCEPT !.left = @ \ {t}, !.rets[t] = r]
  ELSE rc

\* A thread enters get_token and blocks on "with self._lock".
Call(t) ==
  /\ pc[t] = "idle"
  /\ UNCHANGED otherVars
  /\ calls < MaxCalls
  /\ pc' = [pc EXCEPT ![t] = "waiting"]
  /\ calls' = calls + 1
  /\ attempts' = [attempts EXCEPT ![t] = 0]
  /\ exch_result' = [exch_result EXCEPT ![t] = "none"]
  /\ outcome' = [outcome EXCEPT ![t] = "none"]
  /\ ret' = [ret EXCEPT ![t] = None]
  /\ err' = [err EXCEPT ![t] = "none"]
  /\ LET stale == ~CacheValid(copilot_token, expires_at, now)
         others == Threads \ {t}
     IN /\ stale_at_call' = [stale_at_call EXCEPT ![t] = stale]
        /\ race' =
             IF /\ stale
                /\ \A u \in others : InCall(u) /\ stale_at_call[u]
                /\ \A u \in others : exch_result[u] = "none"
             THEN [NoRace EXCEPT !.on = TRUE, !.left = Threads,
                                 !.exch = Cardinality({u \in others : pc[u] = "exchanging"})]
             ELSE race
  /\ UNCHANGED <<cred_src, copilot_token, expires_at, lock, now, ticks, exchanges>>

\* get_token entered without waiting for the lock
AcquireUnguarded(t) ==
  /\ pc[t] = "waiting"
  /\ UNCHANGED otherVars
  /\ lock' = t
  /\ pc' = [pc EXCEPT ![t] = "locked"]
  /\ UNCHANGED <<cred_src, copilot_token, expires_at, now, ticks, exchanges, calls, attempts,
                 exch_result, outcome, ret, err, stale_at_call, race>>

\* line 81: with self._lock
Acquire(t) ==
  /\ pc[t] = "waiting"
  /\ UNCHANGED otherVars
  /\ lock = NoThread
  /\ lock' = t
  /\ pc' = [pc EXCEPT ![t] = "locked"]
  /\ UNCHANGED <<cred_src, copilot_token, expires_at, now, ticks, exchanges, calls, attempts,
                 exch_result, outcome, ret, err, stale_at_call, race>>

\* the lock kept when get_token leaves by an exception
LockAfterKeptOnRaise(t, o) == IF o = "raised" THEN t ELSE NoThread

\* the lock kept when get_token leaves by a return
LockAfterKeptOnReturn(t, o) == IF o = "returned" THEN t ELSE NoThread

\* line 81: the with block is left, by a return (o = "returned") or by an
\* exception (o = "raised"); either way the lock is released
LockAfter(t, o) == NoThread

\* lines 82-83: the cache hit; the lock is released on the way out
CheckHit(t) ==
  /\ pc[t] = "locked"
  /\ UNCHANGED otherVars
  /\ CacheValid(copilot_token, expires_at, now)
  /\ pc' = [pc EXCEPT ![t] = "idle"]
  /\ outcome' = [outcome EXCEPT ![t] = "returned"]
  /\ ret' = [ret EXCEPT ![t] = copilot_token]
  /\ lock' = LockAfter(t, "returned")
  /\ race' = RaceAfterEnd(race, t, copilot_token)
  /\ UNCHANGED <<cred_src, copilot_token, expires_at, now, ticks, exchanges, calls, attempts,
                 exch_result, err, stale_at_call>>

\* lines 82, 85-87 and 72-76: the cache miss; the exchange request goes out
CheckMiss(t) ==
  /\ pc[t] = "locked"
  /\ UNCHANGED otherVars
  /\ ~CacheValid(copilot_token, expires_at, now)
  /\ pc' = [pc EXCEPT ![t] = "exchanging"]
  /\ exchanges' = exchanges + 1
  /\ attempts' = [attempts EXCEPT ![t] = @ + 1]
  /\ race' = IF race.on /\ t \in race.left THEN [race EXCEPT !.exch = @ + 1] ELSE race
  /\ UNCHANGED <<cred_src, copilot_token, expires_at, lock, now, ticks, calls, exch_result,
                 outcome, ret, err, stale_at_call>>

\* the exchanged token returned to the caller but not kept in the cache
StoreReplyUncached(data) ==
  IF data.token = Missing \/ data.expires_at = Missing
  THEN [token |-> copilot_token, expires_at |-> expires_at, stored |-> {},
        outcome |-> "raised", ret |-> None, err |-> "NameError"]
  ELSE [token |-> copilot_token, expires_at |-> expires_at, stored |-> {},
        outcome |-> "returned", ret |-> data.token, err |-> "none"]

\* lines 88-96 on the dict the exchange returned. data["token"] is stored
\* before data["expires_at"] is looked up, so a reply without "expires_at"
\* leaves the new token beside the old expiry. Every exception of the try
\* block reaches "except HTTPError", a name the module never binds (line 32
\* imports it as UrllibHTTPError): evaluating it raises NameError, which is
\* what the call raises.
StoreReply(data) ==
  IF data.token = Missing
  THEN [token |-> copilot_token, expires_at |-> expires_at, stored |-> {},
        outcome |-> "raised", ret |-> None, err |-> "NameError"]
  ELSE IF data.expires_at = Missing
  THEN [token |-> data.token, expires_at |-> expires_at, stored |-> {"token"},
        outcome |-> "raised", ret |-> None, err |-> "NameError"]
  ELSE [token |-> data.token, expires_at |-> data.expires_at,
        stored |-> {"token", "expires_at"},
        outcome |-> "returned", ret |-> data.token, err |-> "none"]

\* where the cached fields are from once exchange number serial has assigned
\* the fields in stored (lines 88-89)
SrcAfter(src, stored, serial) ==
  [token |-> IF "token" \in stored THEN serial ELSE src.token,
   expires_at |-> IF "expires_at" \in stored THEN serial ELSE src.expires_at]

\* lines 77, 88-96: the exchange is answered with a JSON object
ExchangeOk(t) ==
  /\ pc[t] = "exchanging"
  /\ UNCHANGED otherVars
  /\ \E data \in ExchangeReplies(exchanges, now) :
       LET s == StoreReply(data) IN
       /\ copilot_token' = s.token
       /\ expires_at' = s.expires_at
       /\ cred_src' = SrcAfter(cred_src, s.stored, exchanges)
       /\ outcome' = [outcome EXCEPT ![t] = s.outcome]
       /\ ret' = [ret EXCEPT ![t] = s.ret]
       /\ err' = [err EXCEPT ![t] = s.err]
       /\ exch_result' = [exch_result EXCEPT ![t] =
                           IF Missing \in {data.token, data.expires_at}
                           THEN "malformed" ELSE "ok"]
       /\ lock' = LockAfter(t, s.outcome)
       /\ race' = RaceAfterEnd(
                    RaceAfterReply(t, IF Missing \in {data.token, data.expires_at}
                                      THEN "failed" ELSE "ok",
                                   data.token, data.expires_at),
                    t, s.ret)
  /\ pc' = [pc EXCEPT ![t] = "idle"]
  /\ UNCHANGED <<now, ticks, exchanges, calls, attempts, stale_at_call>>

\* a failed exchange answered with the token still in the cache
FailedExchangeStale(cached, e) ==
  IF Truthy(cached)
  THEN [outcome |-> "returned", ret |-> cached, err |-> "none"]
  ELSE [outcome |-> "raised", ret |-> None, err |-> "NameError"]

\* What get_token does when _exchange_token raised (lines 97-103).
FailedExchange(cached, e) ==
  [outcome |-> "raised", ret |-> None, err |-> "NameError"]

\* lines 76, 97-103: the exchange fails (network error, non-success status)
ExchangeFail(t) ==
  /\ pc[t] = "exchanging"
  /\ UNCHANGED otherVars
  /\ \E e \in ExchangeFailures :
       LET f == FailedExchange(copilot_token, e) IN
       /\ outcome' = [outcome EXCEPT ![t] = f.outcome]
       /\ ret' = [ret EXCEPT ![t] = f.ret]
       /\ err' = [err EXCEPT ![t] = f.err]
       /\ exch_result' = [exch_result EXCEPT ![t] = e]
       /\ lock' = LockAfter(t, f.outcome)
       /\ race' = RaceAfterEnd(RaceAfterReply(t, "failed", None, 0), t, f.ret)
  /\ pc' = [pc EXCEPT ![t] = "idle"]
  /\ UNCHANGED <<cred_src, copilot_token, expires_at, now, ticks, exchanges, calls, attempts,
                 stale_at_call>>

\* time.time() advances
Tick ==
  /\ ticks < MaxTicks
  /\ UNCHANGED otherVars
  /\ ticks' = ticks + 1
  /\ now' = now + TickLen
  /\ UNCHANGED <<cred_src, copilot_token, expires_at, lock, exchanges, pc, calls, attempts,
                 exch_result, outcome, ret, err, stale_at_call, race>>

(***************************************************************************)
(* ProxyHandler._proxy and ProxyHandler._respond                           *)
(*                                                                         *)
(* A byte is a one-character string and a byte string a sequence of them.  *)
(* What reaches the client is kept line by line: the status line and the   *)
(* header lines as records, each wfile.write of body bytes as a "data"     *)
(* record.                                                                 *)
(***************************************************************************)

RECURSIVE Flatten(_)
Flatten(ss) == IF ss = <<>> THEN <<>> ELSE Head(ss) \o Flatten(Tail(ss))

StatusLine(code) ==
  [kind |-> "status", name |-> "", val |-> "", num |-> code, bytes |-> <<>>]
Header(name, val) ==
  [kind |-> "header", name |-> name, val |-> val, num |-> 0, bytes |-> <<>>]
\* a header whose value is the decimal form of a number, str(n)
NumHeader(name, n) ==
  [kind |-> "header", name |-> name, val |-> "", num |-> n, bytes |-> <<>>]
EndOfHeaders ==
  [kind |-> "end", name |-> "", val |-> "", num |-> 0, bytes |-> <<>>]
Data(bs) ==
  [kind |-> "data", name |-> "", val |-> "", num |-> 0, bytes |-> bs]

\* BaseHTTPRequestHandler.send_response: the status line and the Server and
\* Date headers are appended to _headers_buffer; nothing is written yet.
SendResponse(buf, code) ==
  buf \o <<StatusLine(code), Header("Server", "BaseHTTP"), Header("Date", "now")>>

\* BaseHTTPRequestHandler.send_header: appended to _headers_buffer
SendHeader(buf, h) == Append(buf, h)

\* BaseHTTPRequestHandler.end_headers: the blank line is appended and the
\* whole buffer is written to wfile; the buffer is then empty.
EndHeaders(buf, w) == w \o buf \o <<EndOfHeaders>>

\* json.dumps escapes the quote, the backslash and control characters
EscapeChar(c) ==
  CASE c = "\"" -> <<"\\", "\"">>
    [] c = "\\" -> <<"\\", "\\">>
    [] c = "\r" -> <<"\\", "r">>
    [] c = "\n" -> <<"\\", "n">>
    [] OTHER -> <<c>>

RECURSIVE Escape(_)
Escape(msg) == IF msg = <<>> THEN <<>> ELSE EscapeChar(Head(msg)) \o Escape(Tail(msg))

\* json.dumps({"error": msg}).encode()
JsonError(msg) == <<"{", "\"", "e", "r", "r", "o", "r", "\"", ":", " ", "\"">> \o Escape(msg) \o <<"\"", "}">>

\* lines 211-217: _respond(code, data) on a buffer and a wfile, body being
\* json.dumps(data).encode(); yields the wfile afterwards (the buffer is
\* empty afterwards).
RespondHeaders(buf, code, body) ==
  LET b1 == SendResponse(buf, code)
      b2 == SendHeader(b1, Header("Content-Type", "application/json"))
  IN SendHeader(b2, NumHeader("Content-Length", Len(body)))

RespondBody(buf, w, code, body) ==
  Append(EndHeaders(RespondHeaders(buf, code, body), w), Data(body))

\* _respond(code, {"error": msg})
Respond(buf, w, code, msg) == RespondBody(buf, w, code, JsonError(msg))

\* str(e) of the exceptions the network calls raise
ErrorTexts == {<<"t", "i", "m", "e", "d", " ", "o", "u", "t">>, <<"b", "a", "d", " ", "\"", "x", "\"", "\\">>}
\* str(e) of the NameError that get_token raises
NameErrorText == <<"n", "a", "m", "e", " ", "'", "H", "T", "T", "P", "E", "r", "r", "o", "r", "'", " ", "i", "s", " ", "n", "o", "t", " ", "d", "e", "f", "i", "n", "e", "d">>

\* json.dumps({"status": "ok"}).encode() (line 133)
JsonStatusOk == <<"{", "\"", "s", "t", "a", "t", "u", "s", "\"", ":", " ", "\"", "o", "k", "\"", "}">>
\* the text of the 404 answer (lines 139, 150)
NotFoundText == <<"N", "o", "t", " ", "f", "o", "u", "n", "d">>

\* Request paths, character by character: the routes of do_GET and do_POST,
\* and paths that continue one of them, fall short of one, or are unrelated.
HealthPaths == {<<"/", "h", "e", "a", "l", "t", "h">>, <<"/", "h", "e", "a", "l", "t", "h", "z">>}
ModelsPrefixes == {<<"/", "v", "1", "/", "m", "o", "d", "e", "l", "s">>, <<"/", "m", "o", "d", "e", "l", "s">>}
ResponsesPaths == {<<"/", "r", "e", "s", "p", "o", "n", "s", "e", "s">>, <<"/", "v", "1", "/", "r", "e", "s", "p", "o", "n", "s", "e", "s">>}
ChatPaths == {<<"/", "c", "h", "a", "t", "/", "c", "o", "m", "p", "l", "e", "t", "i", "o", "n", "s">>, <<"/", "v", "1", "/", "c", "h", "a", "t", "/", "c", "o", "m", "p", "l", "e", "t", "i", "o", "n", "s">>}
OtherPaths ==
  {<<"/">>, <<"/", "f", "o", "o">>, <<"/", "m", "o", "d", "e", "l", "s", "x">>, <<"/", "v", "1", "/", "m", "o", "d", "e", "l", "s", "/", "x">>, <<"/", "m", "o", "d", "e", "l">>, <<"/", "r", "e", "s", "p", "o", "n", "s", "e", "s", "/", "x">>, <<"/", "h", "e", "a", "l", "t", "h", "/", "x">>}
Paths == HealthPaths \cup ModelsPrefixes \cup ResponsesPaths \cup ChatPaths \cup OtherPaths
Methods == {"GET", "POST"}

\* str.startswith
StartsWith(p, prefix) ==
  Len(prefix) <= Len(p) /\ SubSeq(p, 1, Len(prefix)) = prefix

\* lines 130-139: where do_GET sends a path: "health", the upstream path
\* handed to _proxy, or "404"
DoGet(p) ==
  IF p \in HealthPaths THEN "health"
  ELSE IF \E prefix \in ModelsPrefixes : StartsWith(p, prefix) THEN "/models"
  ELSE "404"

\* do_POST matching by prefix as do_GET does
DoPostByPrefix(p) ==
  IF \E q \in ResponsesPaths : StartsWith(p, q) THEN "/responses"
  ELSE IF \E q \in ChatPaths : StartsWith(p, q) THEN "/chat/completions"
  ELSE "404"

\* lines 141-150: where do_POST sends a path
DoPost(p) ==
  IF p \in ResponsesPaths THEN "/responses"
  ELSE IF p \in ChatPaths THEN "/chat/completions"
  ELSE "404"

\* BaseHTTPRequestHandler calls do_GET or do_POST by the request's method
Route(m, p) == IF m = "GET" THEN DoGet(p) ELSE DoPost(p)

\* The requests do_GET and do_POST hand to _proxy (lines 136, 143, 147).
ProxiedRequests ==
  {[method |-> "GET", upstream_path |-> "/models"],
   [method |-> "POST", upstream_path |-> "/responses"],
   [method |-> "POST", upstream_path |-> "/chat/completions"]}
NoRequest == [method |-> "", upstream_path |-> ""]

\* What the upstream may answer: a status, a Content-Type header or none, and
\* any of the rate-limit headers.
RateLimitHeaders == <<"X-RateLimit-Limit", "X-RateLimit-Remaining", "X-RateLimit-Reset">>
NoHeader == ""
StreamingTypes == {"text/event-stream", "text/event-stream; charset=utf-8"}
ContentTypes == {NoHeader, "application/json"} \cup StreamingTypes
Statuses == {200, 429}
Responses ==
  [status : Statuses, content_type : ContentTypes,
   ratelimit : {{}, {1}, {1, 2, 3}}]
NoResponse == [status |-> 0, content_type |-> NoHeader, ratelimit |-> {}]

\* line 174: resp.getheader("Content-Type", "application/json")
ContentTypeOf(r) ==
  IF r.content_type = NoHeader THEN "application/json" ELSE r.content_type

\* the whole response taken for a stream, whatever its type
IsStreamingAlways(content_type) == TRUE

\* line 175: "text/event-stream" in content_type
IsStreaming(content_type) == content_type \in StreamingTypes

\* the size argument of resp.read in the streaming loop (line 190)
ReadSize == 4096

\* What one resp.read(4096) may deliver: any non-empty byte string of at most
\* ReadSize bytes. The model draws from byte strings that look like data,
\* like chunk framing, and that are 10, 16 and 17 bytes long.
Chunks ==
  {c \in {<<"a">>, <<"0", "\r", "\n", "\r", "\n">>, <<"d", "a", "t", "a", ":", " ", "h", "i", "\n", "\n">>, <<"d", "a", "t", "a", ":", " ", "0", "1", "2", "3", "4", "5", "6", "7", "8", "9">>, <<"d", "a", "t", "a", ":", " ", "{", "\"", "a", "\"", ":", "1", "}", "\r", "\n", "\r", "\n">>} :
     Len(c) >= 1 /\ Len(c) <= ReadSize}

\* What resp.read() may deliver for a response that is not streamed.
Bodies == {<<>>, <<"{", "}">>, <<"0", "\r", "\n", "\r", "\n">>, <<"d", "a", "t", "a", ":", " ", "{", "\"", "a", "\"", ":", "1", "}", "\r", "\n", "\r", "\n">>}

HexDigits ==
  <<"0", "1", "2", "3", "4", "5", "6", "7", "8", "9", "a", "b", "c", "d", "e", "f">>

\* f"{n:x}": lower-case hexadecimal without leading zeros
RECURSIVE Hex(_)
Hex(n) ==
  IF n < 16 THEN <<HexDigits[n + 1]>> ELSE Hex(n \div 16) \o <<HexDigits[(n % 16) + 1]>>

\* f"{n}": decimal
RECURSIVE Dec(_)
Dec(n) ==
  IF n < 10 THEN <<HexDigits[n + 1]>> ELSE Dec(n \div 10) \o <<HexDigits[(n % 10) + 1]>>

CRLF == <<"\r", "\n">>

\* the size line written in decimal
ChunkFrameDecimal(chunk) ==
  <<Data(Dec(Len(chunk)) \o CRLF), Data(chunk), Data(CRLF)>>

\* lines 193-195: the three writes that frame one chunk
ChunkFrame(chunk) ==
  <<Data(Hex(Len(chunk)) \o CRLF), Data(chunk), Data(CRLF)>>

\* line 197: the zero-length chunk that ends the body
LastChunk == <<Data(<<"0">> \o CRLF \o CRLF)>>

RelayIdle ==
  /\ rpc = "idle"
  /\ requests = 0
  /\ request = NoRequest
  /\ headers_buffer = <<>>
  /\ wfile = <<>>
  /\ conn = "none"
  /\ resp = NoResponse
  /\ reads = <<>>
  /\ failure = "none"
  /\ exc = <<>>
  /\ method = ""
  /\ path = <<>>
  /\ client = "connected"
  /\ health = NoHealth

\* The server starts once main's first get_token has succeeded (lines
\* 347-358): a session token is cached, valid or due for refresh.
RelayInit ==
  /\ github_token = GithubToken
  /\ copilot_token = 1
  /\ cred_src = [token |-> 1, expires_at |-> 1]
  /\ exchanges = 1
  /\ now = 0
  /\ expires_at \in {now + off : off \in ExpiryOffsets}
  /\ lock = NoThread
  /\ ticks = 0
  /\ pc = [t \in Threads |-> "idle"]
  /\ calls = 0
  /\ attempts = [t \in Threads |-> 0]
  /\ exch_result = [t \in Threads |-> "none"]
  /\ outcome = [t \in Threads |-> "none"]
  /\ ret = [t \in Threads |-> None]
  /\ err = [t \in Threads |-> "none"]
  /\ stale_at_call = [t \in Threads |-> FALSE]
  /\ race = NoRace
  /\ RelayIdle

\* conn.close() put at the end of the try block: skipped when it raises
FinallyWhenOk(c, how) == IF how = "ok" THEN "closed" ELSE c

\* lines 204-205: finally conn.close(), whether the try block ended well
\* (how = "ok") or raised (how = "raised")
Finally(c, how) == "closed"

\* str(e) of the error a write to a client that went away raises
BrokenPipeText == <<"[", "E", "r", "r", "n", "o", " ", "3", "2", "]", " ", "B", "r", "o", "k", "e", "n", " ", "p", "i", "p", "e">>

\* A write to the client raised inside the try block of line 170. The
\* handler of lines 207-209 calls _respond, whose headers go to the buffer
\* and whose first write raises again: the exception leaves _proxy with
\* nothing more written.
ClientGone ==
  /\ failure' = "client_write"
  /\ exc' = BrokenPipeText
  /\ client' = "gone"
  /\ conn' = Finally(conn, "raised")
  /\ rpc' = "done"

\* lines 207-209: the exception handler of _proxy, reached from step `where`
\* with str(e) = msg: _respond(502, {"error": str(e)})
Caught(where, msg) ==
  /\ failure' = where
  /\ exc' = msg
  /\ wfile' = Respond(headers_buffer, wfile, 502, msg)
  /\ headers_buffer' = <<>>
  /\ rpc' = "done"

\* the handler is called for the next request on the connection
Arrive ==
  /\ mpc = "serving"
  /\ rpc \in {"idle", "done"}
  /\ UNCHANGED <<devVars, asideVars>>
  /\ client' = "connected"
  /\ requests < MaxRequests
  /\ requests' = requests + 1
  /\ method' \in Methods
  /\ path' \in Paths
  /\ rpc' = "dispatch"
  /\ request' = NoRequest
  /\ headers_buffer' = <<>>
  /\ wfile' = <<>>
  /\ conn' = "none"
  /\ resp' = NoResponse
  /\ reads' = <<>>
  /\ failure' = "none"
  /\ exc' = <<>>
  /\ UNCHANGED tokVars

\* lines 131-133: the health check is answered by the handler itself
Health ==
  /\ rpc = "dispatch"
  /\ UNCHANGED <<devVars, inVars, asideVars, client>>
  /\ Route(method, path) = "health"
  /\ wfile' = RespondBody(headers_buffer, wfile, 200, JsonStatusOk)
  /\ headers_buffer' = <<>>
  /\ rpc' = "done"
  /\ UNCHANGED <<requests, request, conn, resp, reads, failure, exc>>
  /\ UNCHANGED tokVars

\* the health check made to wait for the token lock, as a relayed request does
HealthCheckLocked(t) ==
  /\ pc[t] = "idle"
  /\ lock = NoThread
  /\ health' = [wfile |-> RespondBody(<<>>, <<>>, 200, JsonStatusOk), lock |-> lock]
  /\ UNCHANGED <<tokVars, relayVars, devVars, github_token, mpc>>

\* lines 131-133 in a handler thread that runs beside the threads calling
\* get_token: do_GET answers the health check with _respond alone
HealthCheck(t) ==
  /\ pc[t] = "idle"
  /\ health' = [wfile |-> RespondBody(<<>>, <<>>, 200, JsonStatusOk), lock |-> lock]
  /\ UNCHANGED <<tokVars, relayVars, devVars, github_token, mpc>>

\* lines 137-139, 148-150: no route matches
NotFound ==
  /\ rpc = "dispatch"
  /\ UNCHANGED <<devVars, inVars, asideVars, client>>
  /\ Route(method, path) = "404"
  /\ wfile' = Respond(headers_buffer, wfile, 404, NotFoundText)
  /\ headers_buffer' = <<>>
  /\ rpc' = "done"
  /\ UNCHANGED <<requests, request, conn, resp, reads, failure, exc>>
  /\ UNCHANGED tokVars

\* do_GET / do_POST call _proxy for the request (lines 136, 143, 147);
\* _proxy is given the upstream path and the method and never reads self.path
NewRequest ==
  /\ rpc = "dispatch"
  /\ UNCHANGED <<devVars, asideVars, client>>
  /\ \E r \in ProxiedRequests :
       /\ r.method = method
       /\ r.upstream_path = Route(method, path)
       /\ request' = r
  /\ method' = method
  /\ path' = <<>>
  /\ rpc' = "read_body"
  /\ UNCHANGED <<requests, headers_buffer, wfile, conn, resp, reads, failure, exc>>
  /\ UNCHANGED tokVars

\* lines 155-158: the request body is read
ReadBodyOk ==
  /\ rpc = "read_body"
  /\ UNCHANGED <<devVars, inVars, asideVars, client>>
  /\ rpc' = "token"
  /\ UNCHANGED <<requests, request, headers_buffer, wfile, conn, resp, reads, failure, exc>>
  /\ UNCHANGED tokVars

\* lines 157-158 raising: a Content-Length that is no number, a failing read
ReadBodyFail ==
  /\ rpc = "read_body"
  /\ UNCHANGED <<devVars, inVars, asideVars, client>>
  /\ request.method = "POST"
  /\ \E msg \in ErrorTexts : Caught("request_body", msg)
  /\ UNCHANGED <<requests, request, conn, resp, reads>>
  /\ UNCHANGED tokVars

\* the handler thread of the relayed requests
Worker == CHOOSE t \in Threads : TRUE

\* line 160: copilot_headers() calls get_token, which takes the lock, returns
\* the cached token and releases the lock
GetTokenHit ==
  /\ rpc = "token"
  /\ UNCHANGED <<devVars, inVars, asideVars, client>>
  /\ lock = NoThread
  /\ CacheValid(copilot_token, expires_at, now)
  /\ lock' = LockAfter(Worker, "returned")
  /\ rpc' = "connect"
  /\ UNCHANGED <<requests, request, headers_buffer, wfile, conn, resp, reads, failure, exc>>
  /\ UNCHANGED <<cred_src, copilot_token, expires_at, now, ticks, exchanges, pc, calls,
                 attempts, exch_result, outcome, ret, err, stale_at_call, race>>

\* line 160: get_token exchanges, and the exchange is answered
GetTokenExchange ==
  /\ rpc = "token"
  /\ UNCHANGED <<devVars, inVars, asideVars, client>>
  /\ lock = NoThread
  /\ ~CacheValid(copilot_token, expires_at, now)
  /\ exchanges' = exchanges + 1
  /\ \E data \in ExchangeReplies(exchanges + 1, now) :
       LET s == StoreReply(data) IN
       /\ copilot_token' = s.token
       /\ expires_at' = s.expires_at
       /\ cred_src' = SrcAfter(cred_src, s.stored, exchanges + 1)
       /\ exch_result' = [exch_result EXCEPT ![Worker] =
                           IF Missing \in {data.token, data.expires_at}
                           THEN "malformed" ELSE "ok"]
       /\ lock' = LockAfter(Worker, s.outcome)
       /\ IF s.outcome = "returned"
          THEN /\ rpc' = "connect"
               /\ UNCHANGED <<headers_buffer, wfile, failure, exc>>
          ELSE Caught("token", NameErrorText)
  /\ UNCHANGED <<requests, request, conn, resp, reads>>
  /\ UNCHANGED <<now, ticks, pc, calls, attempts, outcome, ret, err,
                 stale_at_call, race>>

\* line 160: get_token exchanges, and the exchange fails
GetTokenFail ==
  /\ rpc = "token"
  /\ UNCHANGED <<devVars, inVars, asideVars, client>>
  /\ lock = NoThread
  /\ ~CacheValid(copilot_token, expires_at, now)
  /\ exchanges' = exchanges + 1
  /\ \E e \in ExchangeFailures :
       LET f == FailedExchange(copilot_token, e) IN
       /\ exch_result' = [exch_result EXCEPT ![Worker] = e]
       /\ lock' = LockAfter(Worker, f.outcome)
       /\ IF f.outcome = "returned"
          THEN /\ rpc' = "connect"
               /\ UNCHANGED <<headers_buffer, wfile, failure, exc>>
          ELSE Caught("token", NameErrorText)
  /\ UNCHANGED <<requests, request, conn, resp, reads>>
  /\ UNCHANGED <<cred_src, copilot_token, expires_at, now, ticks, pc, calls, attempts,
                 outcome, ret, err, stale_at_call, race>>

\* lines 168-171: the connection object is made and the request is sent
SendRequestOk ==
  /\ rpc = "connect"
  /\ UNCHANGED <<devVars, inVars, asideVars, client>>
  /\ conn' = "open"
  /\ rpc' = "getresponse"
  /\ UNCHANGED <<requests, request, headers_buffer, wfile, resp, reads, failure, exc>>
  /\ UNCHANGED tokVars

\* line 171 raising (connecting or sending fails); line 205 closes
SendRequestFail ==
  /\ rpc = "connect"
  /\ UNCHANGED <<devVars, inVars, asideVars, client>>
  /\ conn' = Finally(conn, "raised")
  /\ \E where \in {"connect", "send"} : \E msg \in ErrorTexts : Caught(where, msg)
  /\ UNCHANGED <<requests, request, resp, reads>>
  /\ UNCHANGED tokVars

\* line 172: the upstream status and headers arrive
GetResponseOk ==
  /\ rpc = "getresponse"
  /\ UNCHANGED <<devVars, inVars, asideVars, client>>
  /\ resp' \in Responses
  /\ rpc' = "headers"
  /\ UNCHANGED <<requests, request, headers_buffer, wfile, conn, reads, failure, exc>>
  /\ UNCHANGED tokVars

\* line 172 raising; line 205 closes
GetResponseFail ==
  /\ rpc = "getresponse"
  /\ UNCHANGED <<devVars, inVars, asideVars, client>>
  /\ conn' = Finally(conn, "raised")
  /\ \E msg \in ErrorTexts : Caught("getresponse", msg)
  /\ UNCHANGED <<requests, request, resp, reads>>
  /\ UNCHANGED tokVars

\* lines 177-182: the upstream status, the Content-Type and the rate-limit
\* headers that are present go to the headers buffer
UpstreamHeaders(r) ==
  LET b0 == SendResponse(<<>>, r.status)
      b1 == SendHeader(b0, Header("Content-Type", ContentTypeOf(r)))
      rl == [i \in 1..3 |-> IF i \in r.ratelimit
                            THEN <<Header(RateLimitHeaders[i], "60")>> ELSE <<>>]
  IN b1 \o Flatten(rl)

\* lines 185-187: the headers of a chunked response
StreamingHeaders ==
  <<Header("Transfer-Encoding", "chunked"), Header("Cache-Control", "no-cache"),
    Header("Connection", "keep-alive")>>

\* lines 174-188: the response is classified and its headers are relayed;
\* those of a streaming response are flushed to the client at once
RelayHeaders ==
  /\ rpc = "headers"
  /\ UNCHANGED <<devVars, inVars, asideVars, client>>
  /\ LET buf == headers_buffer \o UpstreamHeaders(resp) IN
     IF IsStreaming(ContentTypeOf(resp))
     THEN /\ wfile' = EndHeaders(buf \o StreamingHeaders, wfile)
          /\ headers_buffer' = <<>>
          /\ rpc' = "streaming"
     ELSE /\ headers_buffer' = buf
          /\ wfile' = wfile
          /\ rpc' = "buffering"
  /\ UNCHANGED <<requests, request, conn, resp, reads, failure, exc>>
  /\ UNCHANGED tokVars

\* lines 190-196: one read of the stream is framed and written
StreamRead ==
  /\ rpc = "streaming"
  /\ UNCHANGED <<devVars, inVars, asideVars, client>>
  /\ Len(reads) < MaxReads
  /\ \E chunk \in Chunks :
       /\ reads' = Append(reads, chunk)
       /\ wfile' = wfile \o ChunkFrame(chunk)
  /\ UNCHANGED <<rpc, requests, request, headers_buffer, conn, resp, failure, exc>>
  /\ UNCHANGED tokVars

\* lines 190-192, 197-198, 205: the stream ends
StreamEnd ==
  /\ rpc = "streaming"
  /\ UNCHANGED <<devVars, inVars, asideVars, client>>
  /\ wfile' = wfile \o LastChunk
  /\ conn' = Finally(conn, "ok")
  /\ rpc' = "done"
  /\ UNCHANGED <<requests, request, headers_buffer, resp, reads, failure, exc>>
  /\ UNCHANGED tokVars

\* line 188 raising: the flush of the headers of a streaming response fails
StreamHeadersWriteFail ==
  /\ rpc = "headers"
  /\ UNCHANGED <<devVars, inVars, asideVars>>
  /\ IsStreaming(ContentTypeOf(resp))
  /\ ClientGone
  /\ headers_buffer' =
       RespondHeaders(headers_buffer \o UpstreamHeaders(resp) \o StreamingHeaders,
                      502, JsonError(BrokenPipeText))
  /\ UNCHANGED <<requests, request, wfile, resp, reads>>
  /\ UNCHANGED tokVars

\* lines 190-196 with a write raising: a chunk is read, and of the three
\* writes that frame it the first, the second or the third fails
StreamWriteFail ==
  /\ rpc = "streaming"
  /\ UNCHANGED <<devVars, inVars, asideVars>>
  /\ Len(reads) < MaxReads
  /\ \E chunk \in Chunks : \E k \in 0..2 :
       /\ reads' = Append(reads, chunk)
       /\ wfile' = wfile \o SubSeq(ChunkFrame(chunk), 1, k)
  /\ ClientGone
  /\ headers_buffer' = RespondHeaders(headers_buffer, 502, JsonError(BrokenPipeText))
  /\ UNCHANGED <<requests, request, resp>>
  /\ UNCHANGED tokVars

\* lines 190-192, 197 raising: the stream ends and the last write fails
StreamEndWriteFail ==
  /\ rpc = "streaming"
  /\ UNCHANGED <<devVars, inVars, asideVars>>
  /\ ClientGone
  /\ headers_buffer' = RespondHeaders(headers_buffer, 502, JsonError(BrokenPipeText))
  /\ UNCHANGED <<requests, request, wfile, resp, reads>>
  /\ UNCHANGED tokVars

\* line 190 raising in the middle of the stream; lines 205, 207-209
StreamFail ==
  /\ rpc = "streaming"
  /\ UNCHANGED <<devVars, inVars, asideVars, client>>
  /\ conn' = Finally(conn, "raised")
  /\ \E msg \in ErrorTexts : Caught("stream_read", msg)
  /\ UNCHANGED <<requests, request, resp, reads>>
  /\ UNCHANGED tokVars

\* lines 200-205: the whole body is read and sent with its Content-Length
BufferRead ==
  /\ rpc = "buffering"
  /\ UNCHANGED <<devVars, inVars, asideVars, client>>
  /\ \E resp_body \in Bodies :
       /\ reads' = <<resp_body>>
       /\ wfile' = Append(
            EndHeaders(SendHeader(headers_buffer, NumHeader("Content-Length", Len(resp_body))),
                       wfile),
            Data(resp_body))
  /\ headers_buffer' = <<>>
  /\ conn' = Finally(conn, "ok")
  /\ rpc' = "done"
  /\ UNCHANGED <<requests, request, resp, failure, exc>>
  /\ UNCHANGED tokVars

\* lines 200-203 with a write raising: the body is read, and the flush of
\* the headers (line 202) or the write of the body (line 203) fails
BufferWriteFail ==
  /\ rpc = "buffering"
  /\ UNCHANGED <<devVars, inVars, asideVars>>
  /\ \E resp_body \in Bodies :
       LET buf == SendHeader(headers_buffer, NumHeader("Content-Length", Len(resp_body))) IN
       /\ reads' = <<resp_body>>
       /\ \/ /\ wfile' = wfile
             /\ headers_buffer' = RespondHeaders(buf, 502, JsonError(BrokenPipeText))
          \/ /\ wfile' = EndHeaders(buf, wfile)
             /\ headers_buffer' = RespondHeaders(<<>>, 502, JsonError(BrokenPipeText))
  /\ ClientGone
  /\ UNCHANGED <<requests, request, resp>>
  /\ UNCHANGED tokVars

\* line 200 raising; lines 205, 207-209
BufferFail ==
  /\ rpc = "buffering"
  /\ UNCHANGED <<devVars, inVars, asideVars, client>>
  /\ conn' = Finally(conn, "raised")
  /\ \E msg \in ErrorTexts : Caught("body_read", msg)
  /\ UNCHANGED <<requests, request, resp, reads>>
  /\ UNCHANGED tokVars


(***************************************************************************)
(* github_device_flow                                                      *)
(***************************************************************************)

NoToken == ""
NotExited == 0 - 1
\* access tokens the authorization server may grant
DurableTokens == {"gho_A", "gho_B"}

\* line 280: device_data.get("interval", 5)
DefaultInterval == 5
\* line 322: interval += 5
SlowDownIncrement == 5
\* lines 326, 329: sys.exit(1); an uncaught exception ends the process with 1 too
ExitFailure == 1

\* the "interval" of the device-code answer: absent, or a number of seconds
ServerIntervals == {Missing, 5, 10}

\* What one poll may come to: urlopen raising (a network failure or a
\* non-success status), or a JSON object with an access_token, with one of
\* the errors of the device flow, with an error the code does not know, or
\* with neither.
ErrorOutcomes ==
  {"authorization_pending", "slow_down", "expired_token", "access_denied",
   "unsupported_grant_type", ""}
PollOutcomes ==
  [kind : {"raised"}, error : {""}, access_token : {NoToken}]
  \cup [kind : {"json"}, error : ErrorOutcomes, access_token : {NoToken}]
  \cup [kind : {"json"}, error : {""}, access_token : DurableTokens]

DeviceIdle ==
  /\ dpc = "idle"
  /\ interval = 0
  /\ first_interval = 0
  /\ slept = <<>>
  /\ polls = 0
  /\ poll_log = <<>>
  /\ token_file = NoToken
  /\ file_writes = 0
  /\ dret = NoToken
  /\ exit_code = NotExited

\* main found no token (lines 341-344): the device flow starts, with no
\* TokenManager made yet and no TOKEN_FILE holding a token
DeviceInit ==
  /\ TokenManagerInit
  /\ RelayIdle
  /\ dpc = "start"
  /\ interval = 0
  /\ first_interval = 0
  /\ slept = <<>>
  /\ polls = 0
  /\ poll_log = <<>>
  /\ token_file = NoToken
  /\ file_writes = 0
  /\ dret = NoToken
  /\ exit_code = NotExited
  /\ mpc = "device_flow"

\* the interval of the answer taken as it is
FirstIntervalAsAnswered(i) == IF i = Missing THEN DefaultInterval ELSE i

\* line 280: interval = device_data.get("interval", 5) + 1
FirstInterval(i) == (IF i = Missing THEN DefaultInterval ELSE i) + 1

\* lines 264-280: the device code is requested and answered
RequestCodeOk ==
  /\ dpc = "start"
  /\ \E i \in ServerIntervals :
       /\ interval' = FirstInterval(i)
       /\ first_interval' = FirstInterval(i)
  /\ dpc' = "sleeping"
  /\ UNCHANGED <<slept, polls, poll_log, token_file, file_writes, dret, exit_code>>
  /\ UNCHANGED <<tokVars, relayVars, asideVars>>

\* lines 274-279 raising: nothing catches it, the process ends
RequestCodeFail ==
  /\ dpc = "start"
  /\ dpc' = "exited"
  /\ exit_code' = ExitFailure
  /\ UNCHANGED <<interval, first_interval, slept, polls, poll_log, token_file,
                 file_writes, dret>>
  /\ UNCHANGED <<tokVars, relayVars, asideVars>>

\* line 292: time.sleep(interval)
Sleep ==
  /\ dpc = "sleeping"
  /\ polls < MaxPolls
  /\ slept' = Append(slept, interval)
  /\ dpc' = "polling"
  /\ UNCHANGED <<interval, first_interval, polls, poll_log, token_file, file_writes,
                 dret, exit_code>>
  /\ UNCHANGED <<tokVars, relayVars, asideVars>>

\* every error but access_denied taken for retryable
ClassifyLenient(o) ==
  IF o.kind = "raised" THEN "continue"
  ELSE IF o.access_token # NoToken THEN "authorized"
  ELSE IF o.error = "slow_down" THEN "slow_down"
  ELSE IF o.error = "access_denied" THEN "exit"
  ELSE "continue"

\* lines 303-332: what the loop does with the outcome of one poll
Classify(o) ==
  IF o.kind = "raised" THEN "continue"
  ELSE IF o.access_token # NoToken THEN "authorized"
  ELSE IF o.error = "authorization_pending" THEN "continue"
  ELSE IF o.error = "slow_down" THEN "slow_down"
  ELSE IF o.error = "expired_token" THEN "exit"
  ELSE IF o.error = "access_denied" THEN "exit"
  ELSE "continue"

\* the interval raised after every poll that does not end the flow
NextIntervalAlways(i, class) ==
  IF class \in {"slow_down", "continue"} THEN i + SlowDownIncrement ELSE i

\* lines 321-323: the interval after a poll
NextInterval(i, class) ==
  IF class = "slow_down" THEN i + SlowDownIncrement ELSE i

\* lines 293-332: one poll request and what follows from its outcome
Poll ==
  /\ dpc = "polling"
  /\ polls' = polls + 1
  /\ \E o \in PollOutcomes :
       LET class == Classify(o) IN
       /\ poll_log' = Append(poll_log, o)
       /\ interval' = NextInterval(interval, class)
       /\ dpc' = CASE class = "authorized" -> "authorized"
                   [] class = "exit" -> "exited"
                   [] OTHER -> "sleeping"
       /\ IF class = "authorized"
          THEN /\ token_file' = o.access_token
               /\ file_writes' = file_writes + 1
               /\ dret' = o.access_token
          ELSE UNCHANGED <<token_file, file_writes, dret>>
       /\ exit_code' = IF class = "exit" THEN ExitFailure ELSE exit_code
  /\ UNCHANGED <<first_interval, slept>>
  /\ UNCHANGED <<tokVars, relayVars, asideVars>>

(***************************************************************************)
(* main: the first exchange, then the server                               *)
(***************************************************************************)

\* main serving whatever the first get_token call did
AfterValidateLenient(o) == "serving"

\* lines 348-354: main goes on to serve when get_token returned, and calls
\* sys.exit(1) when it raised
AfterValidate(o) == IF o = "returned" THEN "serving" ELSE "exited"

\* line 349: main's get_token call; the cache is empty, the exchange is
\* answered
ValidateOk ==
  /\ mpc = "validate"
  /\ exchanges' = exchanges + 1
  /\ \E data \in ExchangeReplies(exchanges + 1, now) :
       LET s == StoreReply(data) IN
       /\ copilot_token' = s.token
       /\ expires_at' = s.expires_at
       /\ cred_src' = SrcAfter(cred_src, s.stored, exchanges + 1)
       /\ mpc' = AfterValidate(s.outcome)
       /\ exit_code' = IF s.outcome = "returned" THEN exit_code ELSE ExitFailure
  /\ UNCHANGED <<lock, now, ticks, pc, calls, attempts, exch_result, outcome, ret, err,
                 stale_at_call, race>>
  /\ UNCHANGED <<dpc, interval, first_interval, slept, polls, poll_log, token_file,
                 file_writes, dret>>
  /\ UNCHANGED <<relayVars, github_token, health>>

\* line 349: main's get_token call; the exchange fails
ValidateFail ==
  /\ mpc = "validate"
  /\ exchanges' = exchanges + 1
  /\ \E e \in ExchangeFailures :
       LET f == FailedExchange(copilot_token, e) IN
       /\ mpc' = AfterValidate(f.outcome)
       /\ exit_code' = IF f.outcome = "returned" THEN exit_code ELSE ExitFailure
  /\ UNCHANGED <<cred_src, copilot_token, expires_at, lock, now, ticks, pc, calls, attempts,
                 exch_result, outcome, ret, err, stale_at_call, race>>
  /\ UNCHANGED <<dpc, interval, first_interval, slept, polls, poll_log, token_file,
                 file_writes, dret>>
  /\ UNCHANGED <<relayVars, github_token, health>>

\* line 292 once MaxPolls polls are on record: the loop sleeps on
SleepOn ==
  /\ dpc = "sleeping"
  /\ polls = MaxPolls
  /\ dpc' = "polling_on"
  /\ UNCHANGED <<interval, first_interval, slept, polls, poll_log, token_file,
                 file_writes, dret, exit_code>>
  /\ UNCHANGED <<tokVars, relayVars, asideVars>>

\* lines 293-332 once MaxPolls polls are on record: a poll that fails, or is
\* answered authorization_pending or with an error the code does not know,
\* sends the loop round again (lines 306-307, 318-319, 331-332)
PollOn ==
  /\ dpc = "polling_on"
  /\ \E o \in PollOutcomes : Classify(o) = "continue"
  /\ dpc' = "sleeping"
  /\ UNCHANGED <<interval, first_interval, slept, polls, poll_log, token_file,
                 file_writes, dret, exit_code>>
  /\ UNCHANGED <<tokVars, relayVars, asideVars>>

DeviceNext ==
  \/ RequestCodeOk
  \/ RequestCodeFail
  \/ Sleep
  \/ Poll

SpecDevice == DeviceInit /\ [][DeviceNext]_vars

\* The polling loop without the bound on its length. Every step of the loop
\* ends (time.sleep returns, urlopen returns or raises within its timeout of
\* 15 seconds), so the loop always takes its next step.
DeviceFairNext ==
  \/ RequestCodeOk
  \/ RequestCodeFail
  \/ Sleep
  \/ Poll
  \/ SleepOn
  \/ PollOn

SpecDeviceFair == DeviceInit /\ [][DeviceFairNext]_vars /\ WF_vars(DeviceFairNext)

RelayNext ==
  \/ Arrive
  \/ Health
  \/ NotFound
  \/ NewRequest
  \/ ReadBodyOk
  \/ ReadBodyFail
  \/ GetTokenHit
  \/ GetTokenExchange
  \/ GetTokenFail
  \/ SendRequestOk
  \/ SendRequestFail
  \/ GetResponseOk
  \/ GetResponseFail
  \/ RelayHeaders
  \/ StreamRead
  \/ StreamEnd
  \/ StreamFail
  \/ StreamHeadersWriteFail
  \/ StreamWriteFail
  \/ StreamEndWriteFail
  \/ BufferRead
  \/ BufferFail
  \/ BufferWriteFail

\* the server started, and no device flow under way
ServerInit == RelayInit /\ DeviceIdle /\ mpc = "serving"

SpecRelay == ServerInit /\ [][RelayNext]_vars

\* a fresh TokenManager, and a worker that relays nothing
\* main has a durable token and has made the TokenManager (lines 341-347)
MainInit == TokenManagerInit /\ RelayIdle /\ DeviceIdle /\ mpc = "validate"

MainNext ==
  \/ ValidateFail
  \/ ValidateOk
  \/ RelayNext

SpecMain == MainInit /\ [][MainNext]_vars

TokenInit == TokenManagerInit /\ RelayIdle /\ DeviceIdle /\ mpc = "serving"

TokenNext ==
  \/ \E t \in Threads : Call(t)
  \/ \E t \in Threads : Acquire(t)
  \/ \E t \in Threads : CheckHit(t)
  \/ \E t \in Threads : CheckMiss(t)
  \/ \E t \in Threads : ExchangeFail(t)
  \/ \E t \in Threads : ExchangeOk(t)
  \/ Tick
  \/ \E t \in Threads : HealthCheck(t)

SpecToken == TokenInit /\ [][TokenNext]_vars

(***************************************************************************)
(* Properties of TokenManager.get_token, checked under SpecToken.          *)
(***************************************************************************)

\* A race is over when every thread's racing call has ended.
RaceOver == race.on /\ race.left = {}

\* C1 as stated: whenever all threads called get_token concurrently on a
\* cache that was not valid, their calls issue exactly one exchange in total
\* and all return the same refreshed token.
C1_OneExchangePerRace ==
  RaceOver =>
    /\ race.exch = 1
    /\ \A t \in Threads : Truthy(race.rets[t])
    /\ \A t, u \in Threads : race.rets[t] = race.rets[u]

\* C1 (amended): when all threads called get_token concurrently on a cache
\* that was not valid, and the first exchange of the race succeeded with a
\* non-empty token that is still valid (now < expires_at - 120) when the last
\* of the calls has ended, the calls issued exactly one exchange in total and
\* all returned that token.
C1_OneExchangePerRaceWhenFirstSucceeds ==
  (/\ RaceOver
   /\ race.first = "ok"
   /\ Truthy(race.first_tok)
   /\ now < race.first_exp - SKEW)
  => /\ race.exch = 1
     /\ \A t \in Threads : race.rets[t] = race.first_tok

C1_Witness ==
  /\ RaceOver
  /\ race.first = "ok"
  /\ Truthy(race.first_tok)
  /\ now < race.first_exp - SKEW
  /\ NThreads >= 2
  /\ race.exch = 1

Exchanging == {t \in Threads : pc[t] = "exchanging"}

\* C2: at most one thread is inside the exchange call, and while a thread
\* is, every other thread that has entered get_token is still waiting for the
\* lock: none is checking the cache and none has started a second exchange.
C2_OneExchangeInFlight ==
  /\ Cardinality(Exchanging) <= 1
  /\ \A t \in Exchanging : \A u \in Threads \ {t} : pc[u] \in {"idle", "waiting"}

C2_Witness ==
  \E t, u \in Threads : t # u /\ pc[t] = "exchanging" /\ pc[u] = "waiting"

\* C3: a get_token call that checks the cache while a session token is cached
\* and now < expires_at - 120 returns the cached token, issues no exchange and
\* leaves the cached token and expires_at unchanged.
C3_CacheHit ==
  [][\A t \in Threads :
       (/\ pc[t] = "locked"
        /\ pc'[t] # "locked"
        /\ copilot_token >= 1
        /\ now < expires_at - SKEW)
       => /\ pc'[t] = "idle"
          /\ outcome'[t] = "returned"
          /\ ret'[t] = copilot_token
          /\ exchanges' = exchanges
          /\ attempts'[t] = 0
          /\ copilot_token' = copilot_token
          /\ expires_at' = expires_at]_vars

C3_Witness ==
  \E t \in Threads :
    /\ pc[t] = "idle"
    /\ outcome[t] = "returned"
    /\ attempts[t] = 0
    /\ ret[t] = copilot_token
    /\ exchanges >= 1

\* C4: a get_token call whose exchange failed (network error or non-success
\* status) ends with an error and returns no token, in particular not the
\* token still in the cache, and it made exactly one exchange attempt.
C4_FailedExchangeRaises ==
  \A t \in Threads :
    exch_result[t] \in ExchangeFailures =>
      /\ pc[t] = "idle"
      /\ outcome[t] = "raised"
      /\ ret[t] = None
      /\ err[t] # "none"
      /\ attempts[t] = 1

C4_Witness ==
  \E t \in Threads :
    /\ exch_result[t] = "HTTPError"
    /\ outcome[t] = "raised"
    /\ Truthy(copilot_token)

(***************************************************************************)
(* Properties of the relay, checked under SpecRelay.                       *)
(*                                                                         *)
(* The client's view of wfile: the header block runs to the first blank    *)
(* line; the body is every byte after it.                                  *)
(***************************************************************************)

EndIndex(w) ==
  IF \E i \in 1..Len(w) : w[i].kind = "end"
  THEN CHOOSE i \in 1..Len(w) : w[i].kind = "end" /\ \A j \in 1..(i - 1) : w[j].kind # "end"
  ELSE Len(w) + 1

HeaderBlock(w) == SubSeq(w, 1, EndIndex(w) - 1)
AfterHeaders(w) == SubSeq(w, EndIndex(w) + 1, Len(w))
BodyBytes(w) == Flatten([i \in 1..Len(AfterHeaders(w)) |-> AfterHeaders(w)[i].bytes])
OnlyData(w) == \A i \in 1..Len(w) : w[i].kind = "data"
StatusLines(w) == {i \in 1..Len(w) : w[i].kind = "status"}
HeadersNamed(w, name) == {i \in 1..Len(w) : w[i].kind = "header" /\ w[i].name = name}

\* A decoder of chunked transfer-encoding: the chunks of a well-formed body
\* that ends with one zero-length chunk and nothing after it.
IsHex(c) == \E i \in 1..16 : HexDigits[i] = c
HexValue(c) == (CHOOSE i \in 1..16 : HexDigits[i] = c) - 1

RECURSIVE LeadingHex(_)
LeadingHex(bs) == IF bs # <<>> /\ IsHex(Head(bs)) THEN 1 + LeadingHex(Tail(bs)) ELSE 0

RECURSIVE HexNumber(_, _)
HexNumber(bs, acc) ==
  IF bs = <<>> THEN acc ELSE HexNumber(Tail(bs), acc * 16 + HexValue(Head(bs)))

Malformed == [ok |-> FALSE, chunks |-> <<>>]

RECURSIVE ParseChunks(_, _)
ParseChunks(bs, acc) ==
  LET k == LeadingHex(bs) IN
  IF k = 0 \/ Len(bs) < k + 2 \/ SubSeq(bs, k + 1, k + 2) # CRLF
  THEN Malformed
  ELSE LET n == HexNumber(SubSeq(bs, 1, k), 0)
           rest == SubSeq(bs, k + 3, Len(bs))
       IN IF n = 0
          THEN IF rest = CRLF THEN [ok |-> TRUE, chunks |-> acc] ELSE Malformed
          ELSE IF Len(rest) < n + 2 \/ SubSeq(rest, n + 1, n + 2) # CRLF
          THEN Malformed
          ELSE ParseChunks(SubSeq(rest, n + 3, Len(rest)), Append(acc, SubSeq(rest, 1, n)))

Dechunk(bs) == ParseChunks(bs, <<>>)

EventStream(r) == ContentTypeOf(r) \in StreamingTypes

\* C5: when an event-stream response has been relayed to its end without a
\* failure, what the client got after the headers is a well-formed chunked
\* body with one chunk per upstream read, in order, ended by one zero-length
\* chunk, and it de-chunks to exactly the bytes read upstream.
C5_StreamByteFidelity ==
  (rpc = "done" /\ request # NoRequest /\ failure = "none" /\ EventStream(resp)) =>
    LET d == Dechunk(BodyBytes(wfile)) IN
    /\ HeadersNamed(HeaderBlock(wfile), "Transfer-Encoding") # {}
    /\ OnlyData(AfterHeaders(wfile))
    /\ d.ok
    /\ d.chunks = reads
    /\ Flatten(d.chunks) = Flatten(reads)

C5_Witness ==
  /\ rpc = "done"
  /\ failure = "none"
  /\ EventStream(resp)
  /\ Len(reads) >= 2
  /\ Len(reads[1]) >= 16
  /\ reads[2] = <<"0", "\r", "\n", "\r", "\n">>
  /\ Dechunk(BodyBytes(wfile)).chunks = reads

\* the failures that happen before any streaming has begun
PreStreamFailures == {"token", "connect", "send", "getresponse", "body_read"}

\* C6: a request that failed before streaming began has got exactly one
\* response: the status line 502 and no other, only the headers of the error
\* response with a Content-Length equal to the length of the body, and the
\* JSON error as the body.
C6_SingleErrorResponse ==
  (rpc = "done" /\ failure \in PreStreamFailures) =>
    /\ wfile[1] = StatusLine(502)
    /\ StatusLines(wfile) = {1}
    /\ \A i \in 1..Len(HeaderBlock(wfile)) :
         wfile[i].kind = "header" =>
           wfile[i].name \in {"Server", "Date", "Content-Type", "Content-Length"}
    /\ \A i \in HeadersNamed(wfile, "Content-Type") : wfile[i].val = "application/json"
    /\ \A i \in HeadersNamed(wfile, "Content-Length") : wfile[i].num = Len(BodyBytes(wfile))
    /\ Cardinality(HeadersNamed(wfile, "Content-Length")) = 1
    /\ BodyBytes(wfile) = JsonError(exc)

\* C7: once the chunked headers of a streaming response have been written, a
\* failing upstream read writes nothing more to the client.
C7_NothingAfterMidStreamFailure ==
  [][(rpc = "streaming" /\ failure' = "stream_read") => wfile' = wfile]_vars

\* C8: when a response that is no event-stream has been relayed without a
\* failure, the client got the upstream status, one Content-Length header
\* equal to the length of the body, no Transfer-Encoding header, and exactly
\* the body bytes, unframed.
C8_BufferedRelay ==
  (rpc = "done" /\ request # NoRequest /\ failure = "none" /\ ~EventStream(resp)) =>
    /\ Len(reads) = 1
    /\ wfile[1] = StatusLine(resp.status)
    /\ StatusLines(wfile) = {1}
    /\ HeadersNamed(wfile, "Transfer-Encoding") = {}
    /\ Cardinality(HeadersNamed(wfile, "Content-Length")) = 1
    /\ \A i \in HeadersNamed(wfile, "Content-Length") :
         i < EndIndex(wfile) /\ wfile[i].num = Len(reads[1])
    /\ OnlyData(AfterHeaders(wfile))
    /\ BodyBytes(wfile) = reads[1]

C8_Witness ==
  /\ rpc = "done"
  /\ failure = "none"
  /\ ~EventStream(resp)
  /\ resp.status = 429
  /\ Len(reads) = 1
  /\ Len(reads[1]) = 17
  /\ BodyBytes(wfile) = reads[1]

(***************************************************************************)
(* Properties of the device flow, checked under SpecDevice.                *)
(***************************************************************************)

Granted(o) == o.kind = "json" /\ o.access_token # NoToken
ErrorIs(o, e) == o.kind = "json" /\ o.access_token = NoToken /\ o.error = e
Retryable(o) ==
  \/ o.kind = "raised"
  \/ \E e \in {"authorization_pending", "slow_down", "unsupported_grant_type", ""} :
       ErrorIs(o, e)
Terminal(o) == ErrorIs(o, "expired_token") \/ ErrorIs(o, "access_denied")
SlowDowns(log) == Cardinality({i \in 1..Len(log) : ErrorIs(log[i], "slow_down")})

\* C9: as many poll requests have been sent as outcomes have come back; the
\* interval is the one polling started with plus 5 seconds per slow_down
\* received, whatever the other outcomes; and once retryable outcomes
\* (pending, slow_down, unknown errors, network failures) have been followed
\* by a response with an access_token, the flow has returned that token.
C9_DevicePolling ==
  LET n == Len(poll_log) IN
  /\ polls = n
  /\ dpc \in {"sleeping", "polling", "authorized"} =>
       interval = first_interval + 5 * SlowDowns(poll_log)
  /\ (/\ n >= 1
      /\ Granted(poll_log[n])
      /\ \A i \in 1..(n - 1) : Retryable(poll_log[i]))
     => /\ dpc = "authorized"
        /\ dret = poll_log[n].access_token

C9_Witness ==
  /\ dpc = "authorized"
  /\ Len(poll_log) = 4
  /\ ErrorIs(poll_log[1], "authorization_pending")
  /\ ErrorIs(poll_log[2], "slow_down")
  /\ ErrorIs(poll_log[3], "authorization_pending")
  /\ Granted(poll_log[4])
  /\ polls = 4
  /\ interval = first_interval + 5
  /\ dret = poll_log[4].access_token

\* C10: a poll answered expired_token or access_denied is the last one: the
\* process has exited with a non-zero status, nothing was returned and the
\* credential file was not written. The file is written once, when a
\* response with an access_token arrives, and never otherwise.
C10_TerminalErrors ==
  LET n == Len(poll_log) IN
  /\ \A i \in 1..n :
       Terminal(poll_log[i]) =>
         /\ i = n
         /\ polls = n
         /\ dpc = "exited"
         /\ exit_code >= 1
         /\ dret = NoToken
         /\ token_file = NoToken
         /\ file_writes = 0
  /\ file_writes = Cardinality({i \in 1..n : Granted(poll_log[i])})
  /\ file_writes <= 1
  /\ file_writes = 1 => dpc = "authorized" /\ token_file = poll_log[n].access_token

C10_Witness ==
  /\ Len(poll_log) >= 2
  /\ ErrorIs(poll_log[Len(poll_log)], "expired_token")
  /\ dpc = "exited"
  /\ exit_code = 1
  /\ file_writes = 0

(***************************************************************************)
(* Properties of the routing, checked under SpecRelay.                     *)
(***************************************************************************)

\* the routes of the proxy: a method and the exact path
ListedRoutes ==
  {<<"GET", p>> : p \in HealthPaths \cup ModelsPrefixes}
  \cup {<<"POST", p>> : p \in ResponsesPaths \cup ChatPaths}

\* the handler answers 404 with {"error": "Not found"} and does nothing else
AnswersNotFound ==
  /\ rpc' = "done"
  /\ wfile'[1] = StatusLine(404)
  /\ StatusLines(wfile') = {1}
  /\ BodyBytes(wfile') = JsonError(NotFoundText)
  /\ \A i \in HeadersNamed(wfile', "Content-Length") : wfile'[i].num = Len(BodyBytes(wfile'))
  /\ conn' = "none"
  /\ request' = NoRequest
  /\ UNCHANGED tokVars

\* C11 as stated: every GET or POST whose method and path are not one of the
\* listed routes is answered 404 with {"error": "Not found"}, with no token
\* exchange and no upstream request.
C11_UnlistedIsNotFound ==
  [][(rpc = "dispatch" /\ rpc' # "dispatch" /\ <<method, path>> \notin ListedRoutes)
       => AnswersNotFound]_vars

\* C11: a POST whose path is not exactly one of the four POST routes, and a
\* GET whose path is neither /health nor /healthz and does not begin with
\* /v1/models or /models, is answered 404 with {"error": "Not found"}, with
\* no token exchange and no upstream request; a GET whose path begins with
\* /v1/models or /models is relayed to the upstream /models.
C11_UnroutedIsNotFound ==
  [][(rpc = "dispatch" /\ rpc' # "dispatch") =>
       LET prefixed == \E q \in ModelsPrefixes : StartsWith(path, q) IN
       /\ (method = "POST" /\ <<method, path>> \notin ListedRoutes) => AnswersNotFound
       /\ (method = "GET" /\ path \notin HealthPaths /\ ~prefixed) => AnswersNotFound
       /\ (method = "GET" /\ path \notin HealthPaths /\ prefixed) =>
            (rpc' = "read_body" /\ request' = [method |-> "GET", upstream_path |-> "/models"])
    ]_vars

C11_Witness ==
  /\ rpc = "done"
  /\ method = "POST"
  /\ \E q \in ResponsesPaths : StartsWith(path, q) /\ path # q
  /\ wfile[1] = StatusLine(404)
  /\ BodyBytes(wfile) = JsonError(NotFoundText)

(***************************************************************************)
(* Properties of the health check, checked under SpecToken.                *)
(***************************************************************************)

\* C12: in every state, whoever holds the token lock and whatever exchange is
\* in flight or has failed, a handler thread can answer GET /health or
\* /healthz at once; answering it writes status 200 with the JSON body
\* {"status": "ok"}, leaves the token manager as it was (no get_token call:
\* no lock taken, no exchange sent) and opens no upstream connection.
C12_HealthAlwaysOk ==
  /\ [](\A t \in Threads : pc[t] = "idle" => ENABLED HealthCheck(t))
  /\ [][health' # health =>
         /\ health'.wfile[1] = StatusLine(200)
         /\ StatusLines(health'.wfile) = {1}
         /\ BodyBytes(health'.wfile) = JsonStatusOk
         /\ \A i \in HeadersNamed(health'.wfile, "Content-Length") :
              health'.wfile[i].num = Len(JsonStatusOk)
         /\ UNCHANGED tokVars
         /\ conn' = "none"
         /\ conn = "none"]_vars

C12_Witness ==
  \E t \in Threads :
    /\ health.lock = t
    /\ health.wfile[1] = StatusLine(200)
    /\ pc[t] = "idle"
    /\ exch_result[t] \in ExchangeFailures
    /\ calls = 1

(***************************************************************************)
(* Properties of failures and of the lock, checked under SpecToken.        *)
(***************************************************************************)

\* C13: the step in which a call's exchange fails leaves github_token and
\* the cached credential as they were and releases the lock, and the cache is
\* still not valid, so the next call finds the lock free and exchanges anew;
\* the thread whose exchange failed never holds the lock afterwards; and a
\* call whose own exchange is answered with a token and an expiry returns
\* that answer's token, whatever exchanges of other calls failed.
C13_FailureIsNotSticky ==
  /\ [](/\ github_token = GithubToken
        /\ \A t \in Threads :
             /\ exch_result[t] \in ExchangeFailures => (lock # t /\ pc[t] = "idle")
             /\ exch_result[t] = "ok" => (outcome[t] = "returned" /\ ret[t] # None))
  /\ [][\A t \in Threads :
          (pc[t] = "exchanging" /\ exch_result'[t] \in ExchangeFailures) =>
            /\ github_token' = github_token
            /\ copilot_token' = copilot_token
            /\ expires_at' = expires_at
            /\ lock' = NoThread
            /\ ~CacheValid(copilot_token', expires_at', now')]_vars

C13_Witness ==
  \E t, u \in Threads :
    /\ t # u
    /\ exch_result[t] \in ExchangeFailures
    /\ outcome[t] = "raised"
    /\ stale_at_call[u]
    /\ exch_result[u] = "ok"
    /\ outcome[u] = "returned"
    /\ ret[u] = exchanges
    /\ exchanges = attempts[t] + attempts[u]

(***************************************************************************)
(* Properties of a failed exchange seen by the client, under SpecRelay.    *)
(***************************************************************************)

\* a occurs in b as a contiguous run
Infix(a, b) == \E i \in 1..(Len(b) - Len(a) + 1) : SubSeq(b, i, i + Len(a) - 1) = a

\* the status and the body of the non-success answer of the token endpoint
\* that urlopen turns into an HTTPError
DeniedStatus == <<"4", "0", "1">>
DeniedBody == <<"B", "a", "d", " ", "c", "r", "e", "d", "e", "n", "t", "i", "a", "l", "s">>

\* C14: when the exchange made for a relayed request was answered with a
\* non-success status, the client has got a 502 whose JSON error body is the
\* text of the error get_token raised, and that text holds the upstream
\* status and body.
C14_ExchangeErrorReported ==
  (rpc = "done" /\ failure = "token" /\ exch_result[Worker] = "HTTPError") =>
    /\ wfile[1] = StatusLine(502)
    /\ BodyBytes(wfile) = JsonError(exc)
    /\ Infix(DeniedStatus, exc)
    /\ Infix(DeniedBody, exc)

(***************************************************************************)
(* Properties of the process, checked under SpecMain (main found a durable *)
(* token, so no device flow runs).                                         *)
(***************************************************************************)

\* C15 as stated: without a device-flow failure the process never ends,
\* whatever exchange or relay fails, the first exchange at start-up included.
C15_OnlyDeviceFlowExits ==
  dpc = "idle" => exit_code = NotExited

\* C15: without a device-flow failure the process ends only in main's first
\* get_token call at start-up, with status 1, before any request is taken;
\* the server runs only after that call returned, and from then on no failed
\* exchange and no failed relay ends the process.
C15_ExitOnlyAtStartup ==
  /\ [](/\ mpc = "serving" =>
             (exit_code = NotExited /\ copilot_token # None /\ exchanges >= 1)
        /\ exit_code # NotExited =>
             (mpc = "exited" /\ exit_code = ExitFailure /\ requests = 0 /\ exchanges = 1)
        /\ requests >= 1 => mpc = "serving")
  /\ [][exit_code' # exit_code => (mpc = "validate" /\ mpc' = "exited")]_vars

C15_Witness ==
  /\ mpc = "serving"
  /\ rpc = "done"
  /\ failure = "token"
  /\ exch_result[Worker] \in ExchangeFailures
  /\ exit_code = NotExited

(***************************************************************************)
(* Properties of the returned and of the cached credential, under          *)
(* SpecToken.                                                              *)
(***************************************************************************)

\* the credential (tok, exp) is valid at time t: a token, more than SKEW
\* seconds before its expiry
ValidAt(tok, exp, t) == tok >= 1 /\ t < exp - SKEW

\* thread t's call returns in this step
Returns(t) == outcome[t] # "returned" /\ outcome'[t] = "returned"

C17_CachedPairFromOneExchange ==
  cred_src.token = cred_src.expires_at

(***************************************************************************)
(* Properties of the connections of the relay, under SpecRelay.            *)
(***************************************************************************)

\* the steps of _proxy that connect to, send to, read from or stream from
\* the upstream
UpstreamSteps == {"connect", "getresponse", "headers", "streaming", "buffering"}

\* C18: the worker holds the token lock at no step of _proxy outside
\* get_token: while it connects, sends, reads or streams, and when it is
\* done with the request, on every path, the lock is free for the get_token
\* call of any other thread.
C18_LockFreeWhileRelaying ==
  (rpc \in UpstreamSteps \cup {"done"}) => lock = NoThread

C18_Witness ==
  /\ rpc = "streaming"
  /\ Len(reads) >= 1
  /\ conn = "open"
  /\ exch_result[Worker] = "ok"
  /\ lock = NoThread

\* C19: whenever _proxy is finished with a request, on every path (success,
\* upstream failure, client write failure), the upstream connection it
\* opened is closed; the step in which a write to the client fails closes
\* the upstream connection, and after it the worker reads nothing more from
\* the upstream and writes nothing more to the client for that request.
C19_UpstreamClosedOnEveryPath ==
  /\ [](rpc = "done" => conn # "open")
  /\ [][/\ (client = "connected" /\ client' = "gone") =>
            (conn' = "closed" /\ rpc' = "done" /\ failure' = "client_write")
        /\ (client = "gone" /\ client' = "gone") =>
            (reads' = reads /\ wfile' = wfile /\ conn' = conn)]_vars

C19_Witness ==
  /\ rpc = "done"
  /\ failure = "client_write"
  /\ client = "gone"
  /\ EventStream(resp)
  /\ Len(reads) >= 2
  /\ conn = "closed"

(***************************************************************************)
(* Properties of the end of the device flow, under SpecDeviceFair.         *)
(***************************************************************************)

\* C20 as stated: once the device code has been obtained, the flow
\* eventually reaches a terminal state.
C20_EventuallyTerminal ==
  (dpc = "sleeping") ~> (dpc \in {"authorized", "exited"})

\* C20: the flow is in a terminal state exactly when the device-code request
\* failed or the last poll was answered with an access_token, expired_token
\* or access_denied, every earlier poll having been answered otherwise;
\* short of that the loop always has a next step (it keeps no deadline of
\* its own); and each poll is preceded by one sleep of the interval current
\* at that time: the server's interval (5 when it gives none) plus 1 second,
\* plus 5 seconds per slow_down received before it.
C20_TerminalOnlyByAnswer ==
  LET n == Len(poll_log) IN
  /\ \A i \in 1..(n - 1) : Retryable(poll_log[i])
  /\ dpc = "authorized" <=> (n >= 1 /\ Granted(poll_log[n]))
  /\ dpc = "exited" <=> ((n = 0 /\ exit_code # NotExited) \/ (n >= 1 /\ Terminal(poll_log[n])))
  /\ dpc \in {"sleeping", "polling", "polling_on"} => ENABLED DeviceFairNext
  /\ Len(slept) = (IF dpc = "polling" THEN n + 1 ELSE n)
  /\ \A i \in 1..Len(slept) :
       slept[i] = first_interval + SlowDownIncrement * SlowDowns(SubSeq(poll_log, 1, i - 1))
  /\ dpc \notin {"start", "exited"} =>
       first_interval \in {i + 1 : i \in (ServerIntervals \ {Missing}) \cup {DefaultInterval}}

C20_Witness ==
  /\ dpc = "authorized"
  /\ Len(poll_log) >= 3
  /\ SlowDowns(poll_log) >= 1
  /\ Len(slept) = Len(poll_log)
  /\ slept[Len(slept)] > slept[1]

====
